---- MODULE Spec2Model ----
(***************************************************************************)
(* Model of fatx/analysis/orphan.py (FatXOrphan: is_valid, recover) and    *)
(* fatx/analysis/signature.py (FatXSignature: seek, read, get_file_name,   *)
(* recover, all_signatures).                                               *)
(*                                                                         *)
(* Four specifications share one set of variables:                         *)
(*   SpecValid    the directory-entry validator, a pure predicate          *)
(*   SpecRecover  the orphan recovery engine, step by step                 *)
(*   SpecNames    the signature registry and the per-type name counters    *)
(*   SpecCarve    seek, read and recover of one signature type             *)
(***************************************************************************)
EXTENDS Integers, Sequences, FiniteSets, TLC

VARIABLES
    cand,            \* validator: the candidate dirent under test
    today,           \* validator: date.today().year
    vdone,           \* validator: is_valid() has returned
    vresult,         \* validator: what is_valid() returned
    tree,            \* recovery: the orphan tree being recovered
    fs,              \* recovery / carving: the output file system
    cursor,          \* the volume's shared read cursor (infile.tell())
    volsize,         \* size in bytes of the volume stream
    stack,           \* recovery: the call stack of FatXOrphan.recover frames
    log,             \* recovery: what has happened, in order
    exc,             \* an exception propagating to the outermost caller
    copies,          \* recovery: per file entry, the reads its copy loop issued
    loaded,          \* carving: signature.py has been imported
    classes,         \* carving: the signature types defined so far
    all_signatures,  \* carving: the module-level registry list
    Unnamed_Counter, \* carving: the attribute Unnamed_Counter of each type
    named,           \* carving: per type, the names its unnamed calls returned
    sigop,           \* carving: the last signature operation and what it did
    fsize_limit,     \* the largest size an output file may reach, or RLIM_INFINITY
    blksize          \* st_blksize of the output files: their write buffer's size

vars == <<cand, today, vdone, vresult, tree, fs, cursor, volsize, stack, log,
          exc, copies, loaded, classes, all_signatures, Unnamed_Counter,
          named, sigop, fsize_limit, blksize>>

validVars == <<cand, today, vdone, vresult>>
recoverVars == <<tree, stack, log, copies>>
sigVars == <<loaded, classes, all_signatures, Unnamed_Counter, named, sigop>>
volVars == <<fs, cursor, volsize, exc>>
envVars == <<fsize_limit, blksize>>

\* Python's None, and a present value x: the empty and the one-element tuple
None == << >>

Some(x) == <<x>>

Val(o) == o[1]

Min(a, b) == IF a <= b THEN a ELSE b

Max(a, b) == IF a >= b THEN a ELSE b

Range(s) == {s[i] : i \in 1..Len(s)}

(***************************************************************************)
(* Part 1.  FatXOrphan.is_valid                                            *)
(***************************************************************************)

\* orphan.py:17-29: the bytes the cp437 strings of VALID_CHARS encode to.
VALID_CHARS ==
    (32..33) \cup (35..41) \cup (45..46) \cup (48..57) \cup (64..91)
        \cup (93..123) \cup (125..126) \cup (128..255)

\* fatx.filesystem.constants.VALID_FILE_ATTRIBUTES: READONLY | HIDDEN |
\* SYSTEM | DIRECTORY | ARCHIVE.
VALID_FILE_ATTRIBUTES == 55

RECURSIVE BitAnd(_, _)
BitAnd(a, b) ==
    IF a = 0 \/ b = 0 THEN 0
    ELSE (a % 2) * (b % 2) + 2 * BitAnd(a \div 2, b \div 2)

\* ~mask restricted to the 8 bits of the one-byte attributes field
BitNot8(m) == 255 - m

\* orphan.py:67-68.  Defined inside is_valid, and never called by it.
is_valid_attributes(attr) == BitAnd(attr, BitNot8(VALID_FILE_ATTRIBUTES)) = 0

IsLeap(y) == (y % 4 = 0) /\ ((y % 100 # 0) \/ (y % 400 = 0))

DaysInMonth(y, m) ==
    IF m = 2 THEN (IF IsLeap(y) THEN 29 ELSE 28)
    ELSE IF m \in {4, 6, 9, 11} THEN 30 ELSE 31

\* orphan.py:82-92: datetime(year, month, day, hour, minute, second) returns
\* (TRUE) or raises ValueError (FALSE).
DatetimeConstructs(year, month, day, hour, minute, second) ==
    /\ year \in 1..9999
    /\ month \in 1..12
    /\ day >= 1 /\ day <= DaysInMonth(year, month)
    /\ hour \in 0..23
    /\ minute \in 0..59
    /\ second \in 0..59

\* orphan.py:70-94
is_valid_date(dt, thisyear) ==
    IF dt = None THEN FALSE
    ELSE IF ~(Val(dt).year <= thisyear) THEN FALSE
    ELSE IF ~DatetimeConstructs(Val(dt).year, Val(dt).month, Val(dt).day,
                                Val(dt).hour, Val(dt).min, Val(dt).sec)
         THEN FALSE
    ELSE TRUE

\* orphan.py:55-102
is_valid(c, thisyear) ==
    IF c.first_cluster > c.max_clusters THEN FALSE
    ELSE IF ~(\A i \in 1..Len(c.file_name_bytes) :
                 c.file_name_bytes[i] \in VALID_CHARS) THEN FALSE
    ELSE IF \/ ~is_valid_date(c.creation_time, thisyear)
            \/ ~is_valid_date(c.last_write_time, thisyear)
            \/ ~is_valid_date(c.last_access_time, thisyear) THEN FALSE
    ELSE TRUE

TS(y, mo, d, h, mi, s) ==
    Some([year |-> y, month |-> mo, day |-> d, hour |-> h, min |-> mi, sec |-> s])

\* Timestamps the raw scan may hand to the validator.
TimeStamps ==
    { None,
      TS(2020, 1, 1, 0, 0, 0),
      TS(2024, 2, 29, 23, 59, 58),
      TS(2023, 2, 29, 0, 0, 0),
      TS(2025, 12, 31, 12, 0, 0),
      TS(2020, 13, 1, 0, 0, 0),
      TS(2020, 1, 32, 0, 0, 0),
      TS(2020, 1, 1, 24, 0, 0),
      TS(2020, 1, 1, 0, 61, 0),
      TS(2020, 1, 1, 0, 0, 60) }

ThisYears == {2024, 2025}

\* b"HELLO.TXT", b"", b"a*", b"\x9d\xe5\xff", b"A\x00"
NameBytes ==
    { <<72, 69, 76, 76, 79, 46, 84, 88, 84>>, << >>, <<97, 42>>,
      <<157, 229, 255>>, <<65, 0>> }

AttributeValues == {0, 8, 16, 55, 128}

MaxClusterValues == {1000}

FirstClusterValues == {10, 1000, 1001, 10000}

Candidates ==
    [ first_cluster : FirstClusterValues,
      max_clusters : MaxClusterValues,
      file_name_bytes : NameBytes,
      attributes : AttributeValues,
      creation_time : TimeStamps,
      last_write_time : TimeStamps,
      last_access_time : TimeStamps ]

NoCand == [ first_cluster |-> 0, max_clusters |-> 0, file_name_bytes |-> << >>,
            attributes |-> 0, creation_time |-> None, last_write_time |-> None,
            last_access_time |-> None ]

(***************************************************************************)
(* The volume: one shared read cursor over a stream of volsize bytes.  The *)
(* byte at position p is identified with p itself, so a string of bytes    *)
(* read from the volume is a sequence of extents <<start, length>>,        *)
(* adjacent extents merged: two such values are equal exactly when the     *)
(* byte strings are.                                                       *)
(***************************************************************************)

\* FatXVolume.file_area_byte_offset, FatXVolume.bytes_per_cluster
FileAreaBase == 4

BytesPerCluster == 16384

\* Bytes [pos, pos + n) of the volume appended to the byte string data.
AppendBytes(data, pos, n) ==
    IF n <= 0 THEN data
    ELSE IF Len(data) > 0 /\ data[Len(data)][1] + data[Len(data)][2] = pos
    THEN [data EXCEPT ![Len(data)] = <<@[1], @[2] + n>>]
    ELSE Append(data, <<pos, n>>)

RECURSIVE NumBytes(_)
NumBytes(data) ==
    IF data = << >> THEN 0 ELSE data[1][2] + NumBytes(Tail(data))

\* How many bytes infile.read(size) returns at position pos, for 0 <= size.
ReadLen(pos, size, vsize) == Max(0, Min(size, vsize - pos))

\* FatXVolume.seek_file_area(offset, whence): infile.seek(offset +
\* file_area_byte_offset, whence), with the stream's whence: 0 from the
\* start, 1 from the current position, 2 from the end.
seek_file_area(offset, whence, cur, vsize) ==
    IF whence = 0 THEN offset + FileAreaBase
    ELSE IF whence = 1 THEN cur + offset + FileAreaBase
    ELSE vsize + offset + FileAreaBase

\* FatXVolume.seek_to_cluster(cluster): the byte offset of the cluster.
seek_to_cluster(cluster) == FileAreaBase + (cluster - 1) * BytesPerCluster

(***************************************************************************)
(* The file object open(whole_path, 'wb') returns, orphan.py:141 and       *)
(* signature.py:134: a buffered writer over the file on disk.  disk is     *)
(* what the file holds, buf the bytes f.write has taken and not yet handed *)
(* to the operating system, ok whether the last operation returned         *)
(* without raising.  The operating system refuses to grow a file past      *)
(* fsize_limit (the EFBIG error): a write that starts below the limit is   *)
(* cut short at it, a write that starts at it fails.                       *)
(***************************************************************************)

\* No limit on the size of a file
RLIM_INFINITY == -1

\* The first k bytes of the byte string data
RECURSIVE TakeBytes(_, _)
TakeBytes(data, k) ==
    IF k <= 0 \/ data = << >> THEN << >>
    ELSE IF data[1][2] >= k THEN << <<data[1][1], k>> >>
    ELSE <<data[1]>> \o TakeBytes(Tail(data), k - data[1][2])

\* The byte string data without its first k bytes
RECURSIVE DropBytes(_, _)
DropBytes(data, k) ==
    IF k <= 0 \/ data = << >> THEN data
    ELSE IF data[1][2] > k
    THEN << <<data[1][1] + k, data[1][2] - k>> >> \o Tail(data)
    ELSE DropBytes(Tail(data), k - data[1][2])

\* The byte string a followed by the byte string b
RECURSIVE ConcatBytes(_, _)
ConcatBytes(a, b) ==
    IF b = << >> THEN a
    ELSE ConcatBytes(AppendBytes(a, b[1][1], b[1][2]), Tail(b))

\* How many of n bytes the operating system takes when they are written at
\* the end of a file of size bytes; none of n > 0 is the error EFBIG
raw_write(n, size, lim) ==
    IF lim = RLIM_INFINITY THEN n ELSE Min(n, Max(0, lim - size))

\* The file object just after open(whole_path, 'wb'): the file is empty
OpenedFile == [disk |-> << >>, buf |-> << >>, ok |-> TRUE]

\* f.flush(), which f.close() and the end of a with block perform: the
\* buffer goes to disk as far as the limit allows, and what does not fit
\* makes the flush raise
file_flush(f, lim) ==
    LET n == NumBytes(f.buf)
        k == raw_write(n, NumBytes(f.disk), lim)
    IN [disk |-> ConcatBytes(f.disk, TakeBytes(f.buf, k)),
        buf |-> DropBytes(f.buf, k),
        ok |-> k = n]

\* f.write(data) on a buffer of cap bytes: data that fits in the free part
\* of the buffer stays in memory; otherwise the buffer is flushed first and
\* data longer than the buffer is written through, its tail staying in the
\* buffer when the operating system took less than all of it and no more
\* than cap bytes are left
file_write(f, data, lim, cap) ==
    LET n == NumBytes(data)
    IN IF n <= cap - NumBytes(f.buf)
       THEN [f EXCEPT !.buf = ConcatBytes(@, data)]
       ELSE LET g == file_flush(f, lim)
            IN IF ~g.ok THEN g
               ELSE IF n <= cap THEN [g EXCEPT !.buf = data]
               ELSE LET k == raw_write(n, NumBytes(g.disk), lim)
                    IN [disk |-> ConcatBytes(g.disk, TakeBytes(data, k)),
                        buf |-> IF n - k <= cap THEN DropBytes(data, k)
                                ELSE << >>,
                        ok |-> n - k <= cap]

\* The file on disk once the file object is closed, after f.write(data)
\* raised or not: closing flushes whatever the buffer still holds
file_close(f, lim) == file_flush(f, lim)

(***************************************************************************)
(* Part 2.  FatXSignature: the registry and get_file_name                  *)
(***************************************************************************)

BaseType == "FatXSignature"

\* The types a scan defines: Foo(FatXSignature), Bar(Foo), Baz(FatXSignature)
SignatureTypes == {"Foo", "Bar", "Baz"}

Parent(t) ==
    IF t = "Bar" THEN "Foo" ELSE IF t = BaseType THEN "object" ELSE BaseType

\* cls.__name__, one character per element
TypeName(t) ==
    IF t = "Foo" THEN <<"F", "o", "o">>
    ELSE IF t = "Bar" THEN <<"B", "a", "r">>
    ELSE IF t = "Baz" THEN <<"B", "a", "z">>
    ELSE <<"F", "a", "t", "X", "S", "i", "g", "n", "a", "t", "u", "r", "e">>

UpperCase == <<"A", "B", "C", "D", "E", "F", "G", "H", "I", "J", "K", "L", "M",
               "N", "O", "P", "Q", "R", "S", "T", "U", "V", "W", "X", "Y", "Z">>

LowerCase == <<"a", "b", "c", "d", "e", "f", "g", "h", "i", "j", "k", "l", "m",
               "n", "o", "p", "q", "r", "s", "t", "u", "v", "w", "x", "y", "z">>

\* str.lower(), signature.py:123
LowerChar(ch) ==
    IF \E i \in 1..26 : UpperCase[i] = ch
    THEN LowerCase[CHOOSE i \in 1..26 : UpperCase[i] = ch]
    ELSE ch

Lower(name) == [i \in 1..Len(name) |-> LowerChar(name[i])]

Digits == <<"0", "1", "2", "3", "4", "5", "6", "7", "8", "9">>

\* str(n) for n >= 0, signature.py:124
RECURSIVE Str(_)
Str(n) ==
    IF n < 10 THEN <<Digits[n + 1]>>
    ELSE Str(n \div 10) \o <<Digits[(n % 10) + 1]>>

\* FatXSignature.__subclasses__(): the direct subclasses, in definition order
Subclasses(t, defined) == SelectSeq(defined, LAMBDA c : Parent(c) = t)

\* The method resolution order of a type: itself, then its bases
RECURSIVE Mro(_)
Mro(t) == IF t = BaseType THEN <<t>> ELSE <<t>> \o Mro(Parent(t))

\* hasattr(cls, 'Unnamed_Counter'), signature.py:121: looked up along the MRO
HasCounter(t, uc) == \E i \in 1..Len(Mro(t)) : uc[Mro(t)[i]] # None

\* getattr(cls, 'Unnamed_Counter'): the first type of the MRO that has one
GetCounter(t, uc) ==
    LET i == CHOOSE i \in 1..Len(Mro(t)) :
                 /\ uc[Mro(t)[i]] # None
                 /\ \A j \in 1..(i - 1) : uc[Mro(t)[j]] = None
    IN Val(uc[Mro(t)[i]])

\* signature.py:121-122
CountersAfterInit(t, uc) ==
    IF ~HasCounter(t, uc) THEN [uc EXCEPT ![t] = Some(1)] ELSE uc

\* signature.py:118-126: the name get_file_name returns
get_file_name(t, name, uc) ==
    IF name = None
    THEN Lower(TypeName(t)) \o Str(GetCounter(t, CountersAfterInit(t, uc)))
    ELSE Val(name)

\* signature.py:119-125: the class attributes after get_file_name
get_file_name_counters(t, name, uc) ==
    IF name = None
    THEN LET uc1 == CountersAfterInit(t, uc)
         IN [uc1 EXCEPT ![t] = Some(GetCounter(t, uc1) + 1)]
    ELSE uc

\* Names parse() may have recovered: none, or "x"
ParsedNames == {None, Some(<<"x">>)}

\* At most this many unnamed get_file_name calls on each type
MaxUnnamed == 3

Defined == Range(classes)

\* signature.py:4 and 147: importing the module defines the base class and then
\* evaluates the registry list, once.
LoadModule ==
    /\ ~loaded
    /\ loaded' = TRUE
    /\ classes' = <<BaseType>>
    /\ all_signatures' = Subclasses(BaseType, classes')
    /\ UNCHANGED <<Unnamed_Counter, named, sigop>>
    /\ UNCHANGED <<validVars, envVars, recoverVars, volVars>>

\* class t(Parent(t)): ... , in any module that imports signature.py
DefineClass(t) ==
    /\ loaded
    /\ t \notin Defined
    /\ Parent(t) \in Defined
    /\ classes' = Append(classes, t)
    /\ UNCHANGED <<loaded, all_signatures, Unnamed_Counter, named, sigop>>
    /\ UNCHANGED <<validVars, envVars, recoverVars, volVars>>

\* signature.py:106-126, on an instance of type t whose name is name
GetFileName(t, name) ==
    /\ t \in Defined \ {BaseType}
    /\ name = None => Len(named[t]) < MaxUnnamed
    /\ Unnamed_Counter' = get_file_name_counters(t, name, Unnamed_Counter)
    /\ named' = IF name = None
                THEN [named EXCEPT
                        ![t] = Append(@, get_file_name(t, name, Unnamed_Counter))]
                ELSE named
    /\ sigop' = [op |-> "get_file_name", type |-> t, name |-> name,
                 ret |-> get_file_name(t, name, Unnamed_Counter)]
    /\ UNCHANGED <<loaded, classes, all_signatures>>
    /\ UNCHANGED <<validVars, envVars, recoverVars, volVars>>

NoOp == [op |-> "none"]

IdleValid == cand = NoCand /\ today = 0 /\ vdone = FALSE /\ vresult = FALSE

IdleRecover == tree = << >> /\ stack = << >> /\ log = << >> /\ copies = << >>

IdleSig ==
    /\ loaded = FALSE /\ classes = << >> /\ all_signatures = << >>
    /\ Unnamed_Counter = [t \in SignatureTypes \cup {BaseType} |-> None]
    /\ named = [t \in SignatureTypes |-> << >>]
    /\ sigop = NoOp

IdleVolume == fs = << >> /\ cursor = 0 /\ volsize = 0 /\ exc = None

IdleEnv == fsize_limit = RLIM_INFINITY /\ blksize = 0

InitNames == IdleValid /\ IdleRecover /\ IdleSig /\ IdleVolume /\ IdleEnv

NextNames ==
    \/ LoadModule
    \/ \E t \in SignatureTypes : DefineClass(t)
    \/ \E t \in SignatureTypes, name \in ParsedNames : GetFileName(t, name)

SpecNames == InitNames /\ [][NextNames]_vars

(***************************************************************************)
(* FatXOrphan.is_valid as a specification: any candidate, then the call    *)
(***************************************************************************)

InitValid ==
    /\ cand \in Candidates
    /\ today \in ThisYears
    /\ vdone = FALSE
    /\ vresult = FALSE
    /\ IdleRecover /\ IdleSig /\ IdleVolume /\ IdleEnv

IsValid ==
    /\ ~vdone
    /\ vdone' = TRUE
    /\ vresult' = is_valid(cand, today)
    /\ UNCHANGED <<cand, today>>
    /\ UNCHANGED <<recoverVars, sigVars, volVars, envVars>>

NextValid == IsValid

SpecValid == InitValid /\ [][NextValid]_vars

(***************************************************************************)
(* Part 3.  FatXSignature: seek, read and recover on one signature type    *)
(***************************************************************************)

\* self.length is an unbounded Python integer; values here are kept as the
\* pair hi * 2^16 + lo, 0 <= lo < 2^16, so that 0xffffffff and its
\* neighbours are exact.
W(hi, lo) == [hi |-> hi, lo |-> lo]

WFromInt(n) == W(n \div 65536, n % 65536)

WToInt(a) == a.hi * 65536 + a.lo

WLess(a, b) == a.hi < b.hi \/ (a.hi = b.hi /\ a.lo < b.lo)

WLeq(a, b) == a = b \/ WLess(a, b)

WNeg(a) == a.hi < 0

\* 0xffffffff, signature.py:135
Sentinel == W(65535, 65535)

\* The values parse() may leave in self.length: -1, 0, 1, 16, 0xfffffffe,
\* 0xffffffff, 0x100000000
LengthValues ==
    { WFromInt(-1), WFromInt(0), WFromInt(1), WFromInt(16), W(65535, 65534),
      Sentinel, W(65536, 0) }

\* How many bytes infile.read(size) returns at position pos: up to size
\* bytes, and everything up to the end of the stream when size is -1.
ReadLenW(pos, size, vsize) ==
    LET rest == Max(0, vsize - pos)
    IN IF WNeg(size) THEN rest
       ELSE IF WLess(WFromInt(rest), size) THEN rest
       ELSE WToInt(size)

\* signature.py:46-49: the cursor after self.seek(offset, whence) on a
\* signature whose _offset is base
seek(base, offset, whence, cur, vsize) ==
    seek_file_area(offset + base, whence, cur, vsize)

\* signature.py:135: extract only a length that is neither 0 nor >= 0xffffffff
Extracts(length) == length # WFromInt(0) /\ WLess(length, Sentinel)

\* signature.py:136-138: the I/O recover performs inside the open file
recover_ios(base, length, cur, vsize) ==
    IF Extracts(length)
    THEN LET pos == seek(base, 0, 0, cur, vsize)
         IN << <<"seek", pos>>, <<"read", length>>,
               <<"write", ReadLenW(pos, length, vsize)>> >>
    ELSE << >>

\* signature.py:136-138: the bytes recover writes
recover_data(base, length, cur, vsize) ==
    IF Extracts(length)
    THEN LET pos == seek(base, 0, 0, cur, vsize)
         IN AppendBytes(<< >>, pos, ReadLenW(pos, length, vsize))
    ELSE << >>

\* signature.py:136-137: the cursor after recover
recover_cursor(base, length, cur, vsize) ==
    IF Extracts(length)
    THEN LET pos == seek(base, 0, 0, cur, vsize)
         IN pos + ReadLenW(pos, length, vsize)
    ELSE cur

\* File system entries; ts is whether the entry's timestamps were restored
File(data) == [kind |-> "file", data |-> data, ts |-> FALSE]

Dir == [kind |-> "dir", data |-> << >>, ts |-> FALSE]

\* The file system with path p made to hold entry e
Put(files, p, e) ==
    [q \in DOMAIN files \cup {p} |-> IF q = p THEN e ELSE files[q]]

\* The destination root handed to recover
OutPath == <<"out">>

SigOffsets == {0, 4}

SeekOffsets == {0, 2}

Whences == {0, 1, 2}

ReadSizes == {1, 4}

\* Size of the volume the signatures are tested on
SigVolSize == 24

\* Seeks stay below this position
MaxPos == 40

\* At most this many carved files
MaxCarved == 1

\* signature.py:46-49
SigSeek(b, k, whence) ==
    /\ exc = None
    /\ seek(b, k, whence, cursor, volsize) \in 0..MaxPos
    /\ cursor' = seek(b, k, whence, cursor, volsize)
    /\ sigop' = [op |-> "seek", offset |-> b, k |-> k, whence |-> whence,
                 before |-> cursor]
    /\ UNCHANGED <<fs, volsize, exc>>
    /\ UNCHANGED <<loaded, classes, all_signatures, Unnamed_Counter, named>>
    /\ UNCHANGED <<validVars, envVars, recoverVars>>

\* signature.py:51-57
SigRead(size) ==
    /\ exc = None
    /\ cursor' = cursor + ReadLen(cursor, size, volsize)
    /\ sigop' = [op |-> "read", at |-> cursor, size |-> size,
                 ret |-> AppendBytes(<< >>, cursor, ReadLen(cursor, size, volsize))]
    /\ UNCHANGED <<fs, volsize, exc>>
    /\ UNCHANGED <<loaded, classes, all_signatures, Unnamed_Counter, named>>
    /\ UNCHANGED <<validVars, envVars, recoverVars>>

\* The limits on the size of a carved file: none, 0 bytes, 5 bytes
SigFsizeLimits == {RLIM_INFINITY, 0, 5}

\* st_blksize of the file system the carved files are written to
SigBlksize == 4096

\* signature.py:134-138: the file object when the with block is left
recover_file(base, length, cur, vsize, lim, cap) ==
    LET w == file_write(OpenedFile, recover_data(base, length, cur, vsize),
                        lim, cap)
        c == file_close(w, lim)
    IN IF Extracts(length) THEN [c EXCEPT !.ok = w.ok /\ c.ok]
       ELSE file_close(OpenedFile, lim)

\* signature.py:128-138, on an instance of type t at offset b; openok is
\* whether open(whole_path, 'wb') succeeds.  No exception is handled: one
\* raised by open, by f.write or on leaving the with block reaches the caller.
SigRecover(t, name, b, length, openok) ==
    LET file_name == get_file_name(t, name, Unnamed_Counter)
        whole_path == Append(OutPath, file_name)
        f == recover_file(b, length, cursor, volsize, fsize_limit, blksize)
    IN /\ exc = None
       /\ t \in Defined \ {BaseType}
       /\ name = None => Len(named[t]) < MaxUnnamed
       /\ whole_path \in DOMAIN fs \/ Cardinality(DOMAIN fs) < MaxCarved
       /\ Unnamed_Counter' = get_file_name_counters(t, name, Unnamed_Counter)
       /\ named' = IF name = None
                   THEN [named EXCEPT ![t] = Append(@, file_name)]
                   ELSE named
       /\ IF openok
          THEN /\ fs' = Put(fs, whole_path, File(f.disk))
               /\ cursor' = recover_cursor(b, length, cursor, volsize)
               /\ exc' = IF f.ok THEN None ELSE Some("OSError")
               /\ sigop' = [op |-> "recover", offset |-> b, length |-> length,
                            path |-> whole_path, opened |-> TRUE,
                            ios |-> recover_ios(b, length, cursor, volsize)]
          ELSE /\ exc' = Some("OSError")
               /\ sigop' = [op |-> "recover", offset |-> b, length |-> length,
                            path |-> whole_path, opened |-> FALSE, ios |-> << >>]
               /\ UNCHANGED <<fs, cursor>>
       /\ UNCHANGED <<volsize, loaded, classes, all_signatures>>
       /\ UNCHANGED <<validVars, envVars, recoverVars>>

InitCarve ==
    /\ IdleValid /\ IdleRecover
    /\ loaded = TRUE
    /\ classes = <<BaseType, "Foo">>
    /\ all_signatures = << >>
    /\ Unnamed_Counter = [t \in SignatureTypes \cup {BaseType} |-> None]
    /\ named = [t \in SignatureTypes |-> << >>]
    /\ sigop = NoOp
    /\ fs = << >>
    /\ cursor = 0
    /\ volsize = SigVolSize
    /\ exc = None
    /\ fsize_limit \in SigFsizeLimits
    /\ blksize = SigBlksize

NextCarve ==
    \/ \E b \in SigOffsets, k \in SeekOffsets, wh \in Whences : SigSeek(b, k, wh)
    \/ \E n \in ReadSizes : SigRead(n)
    \/ \E name \in ParsedNames, b \in SigOffsets, len \in LengthValues,
          ok \in BOOLEAN : SigRecover("Foo", name, b, len, ok)

SpecCarve == InitCarve /\ [][NextCarve]_vars

(***************************************************************************)
(* Part 4.  FatXOrphan.recover, one step of the method at a time.  A frame *)
(* of the call stack is one activation of recover(path) on one entry.      *)
(***************************************************************************)

\* orphan.py:138
bufsize == 1048576

\* Number of clusters of the volume the orphans are recovered from
MaxClusters == 192

RecVolSize == FileAreaBase + MaxClusters * BytesPerCluster

\* orphan.py:124
whole_path(path, file_name) == Append(path, file_name)

\* orphan.py:135: the destination each child is recovered into
child_dest_parent(path, file_name) == path

child_dest(path, file_name) == whole_path(path, file_name)

\* orphan.py:134: the i-th entry the loop over self.children visits
child_at(children, i) == children[i]

\* orphan.py:143
chunk_full(rem) == bufsize

chunk(rem) == Min(rem, bufsize)

\* orphan.py:144
remains_less_bufsize(rem, read) == rem - bufsize

remains_after(rem, read) == rem - read

\* orphan.py:131, 147, 151: the exceptions each handler catches
DirHandlerCatches(kind) == kind \in {"OSError", "IOError"}

FileHandlerNarrow(kind) == kind \in {"OverflowError"}

FileHandlerCatches(kind) == kind \in {"OSError", "IOError", "OverflowError"}

TsHandlerNarrow(kind) == kind \in {"OSError", "IOError"}

TsHandlerCatches(kind) == TRUE

\* What the operating system raises when a directory or file operation fails
IOErrors == {"OSError"}

\* What _set_ts may raise: an OS error, or a timestamp it cannot convert
TsErrors == {"OSError", "ValueError"}

\* os.path.exists(p)
Exists(files, p) == p \in DOMAIN files

IsDir(files, p) == p \in DOMAIN files /\ files[p].kind = "dir"

Prefix(p, k) == SubSeq(p, 1, k)

\* os.makedirs(p) can succeed: p is absent and no ancestor is a file
CanMakedirs(files, p) ==
    /\ ~Exists(files, p)
    /\ \A k \in 1..(Len(p) - 1) :
          Exists(files, Prefix(p, k)) => IsDir(files, Prefix(p, k))

\* os.makedirs(p): p and every missing ancestor become directories
Makedirs(files, p) ==
    [q \in DOMAIN files \cup {Prefix(p, k) : k \in 1..Len(p)} |->
        IF q \in DOMAIN files THEN files[q] ELSE Dir]

\* open(p, 'wb') can succeed: the parent is a directory, p is not one
CanOpen(files, p) ==
    /\ IsDir(files, Prefix(p, Len(p) - 1))
    /\ ~IsDir(files, p)

Entry(name, isdir, children, cluster, size) ==
    [file_name |-> name, is_directory |-> isdir, children |-> children,
     first_cluster |-> cluster, file_size |-> size]

\* One file entry, of any size and at any cluster
LoneFile(cluster, size) == << Entry("f", FALSE, << >>, cluster, size) >>

\* d/ { a, e/ { c }, b }; a spans two chunks
SmallTree ==
    << Entry("d", TRUE, <<2, 3, 4>>, 1, 0),
       Entry("a", FALSE, << >>, 2, bufsize + 3),
       Entry("e", TRUE, <<5>>, 3, 0),
       Entry("b", FALSE, << >>, 4, 3),
       Entry("c", FALSE, << >>, 5, 0) >>

\* d/ { x (a file), x/ { y } }: two entries of one directory share a name
ClashTree ==
    << Entry("d", TRUE, <<2, 3>>, 1, 0),
       Entry("x", FALSE, << >>, 2, 5),
       Entry("x", TRUE, <<4>>, 3, 0),
       Entry("y", FALSE, << >>, 4, 1) >>

FileSizes ==
    {-1, 0, 1, bufsize - 1, bufsize, bufsize + 1, 2 * bufsize, 2 * bufsize + 5}

FileClusters == {1, 129, MaxClusters}

StartCursors == {0, 7, RecVolSize}

\* The output root exists; the destination may already exist, as a directory
\* or as a file.
StartFiles(name) ==
    { [q \in {OutPath} |-> Dir],
      [q \in {OutPath, Append(OutPath, name)} |-> Dir],
      [q \in {OutPath, Append(OutPath, name)} |->
          IF q = OutPath THEN Dir ELSE File(<< <<0, 2>> >>)] }

Nodes == DOMAIN tree

Top == stack[Len(stack)]

TopEntry == tree[Top.node]

TopPath == whole_path(Top.path, TopEntry.file_name)

\* buf is what the file object of an entry being copied holds in its buffer
Frame(n, path) ==
    [node |-> n, path |-> path, pc |-> "enter", i |-> 1, remains |-> 0,
     buf |-> << >>]

SetTop(f) == [stack EXCEPT ![Len(stack)] = f]

Pop == SubSeq(stack, 1, Len(stack) - 1)

Running == stack # << >> /\ exc = None

\* The outermost caller's entry.recover(OutPath)
RecoverCall ==
    /\ stack = << >> /\ log = << >> /\ exc = None
    /\ stack' = <<Frame(1, OutPath)>>
    /\ log' = << <<"call", 1, OutPath>> >>
    /\ UNCHANGED <<tree, copies, volVars, validVars, envVars, sigVars>>

\* orphan.py:124-128: position the cursor, then branch on the entry's kind
Enter ==
    /\ Running /\ Top.pc = "enter"
    /\ cursor' = seek_to_cluster(TopEntry.first_cluster)
    /\ IF TopEntry.is_directory
       THEN IF Exists(fs, TopPath)
            THEN /\ stack' = SetTop([Top EXCEPT !.pc = "children"])
                 /\ log' = Append(log, <<"found", Top.node, fs[TopPath].kind>>)
            ELSE /\ stack' = SetTop([Top EXCEPT !.pc = "makedirs"])
                 /\ log' = log
       ELSE /\ stack' = SetTop([Top EXCEPT !.pc = "open"])
            /\ log' = log
    /\ UNCHANGED <<tree, copies, fs, volsize, exc, validVars, envVars, sigVars>>

\* orphan.py:129-130: os.makedirs succeeds
MakedirsOk ==
    /\ Running /\ Top.pc = "makedirs"
    /\ CanMakedirs(fs, TopPath)
    /\ fs' = Makedirs(fs, TopPath)
    /\ stack' = SetTop([Top EXCEPT !.pc = "children"])
    /\ UNCHANGED <<tree, log, copies, cursor, volsize, exc, validVars, envVars, sigVars>>

\* orphan.py:129-133: os.makedirs raises; the handler logs and returns
MakedirsFail ==
    /\ Running /\ Top.pc = "makedirs"
    /\ \E kind \in IOErrors :
          IF DirHandlerCatches(kind)
          THEN /\ log' = log \o << <<"mkdir_fail", Top.node>>, <<"ret", Top.node>> >>
               /\ stack' = Pop
               /\ exc' = exc
          ELSE /\ log' = Append(log, <<"mkdir_fail", Top.node>>)
               /\ stack' = << >>
               /\ exc' = Some(kind)
    /\ UNCHANGED <<tree, copies, fs, cursor, volsize, validVars, envVars, sigVars>>

\* orphan.py:134-135: the loop calls recover on the next child
NextChild ==
    /\ Running /\ Top.pc = "children"
    /\ Top.i <= Len(TopEntry.children)
    /\ LET c == child_at(TopEntry.children, Top.i)
           dest == child_dest(Top.path, TopEntry.file_name)
       IN /\ stack' = Append(SetTop([Top EXCEPT !.i = @ + 1]), Frame(c, dest))
          /\ log' = Append(log, <<"call", c, dest>>)
    /\ UNCHANGED <<tree, copies, volVars, validVars, envVars, sigVars>>

\* orphan.py:134: the loop over self.children is exhausted
ChildrenDone ==
    /\ Running /\ Top.pc = "children"
    /\ Top.i > Len(TopEntry.children)
    /\ stack' = SetTop([Top EXCEPT !.pc = "set_ts"])
    /\ UNCHANGED <<tree, log, copies, volVars, validVars, envVars, sigVars>>

\* orphan.py:138-141: open(whole_path, 'wb') creates or truncates the file
OpenOk ==
    /\ Running /\ Top.pc = "open"
    /\ CanOpen(fs, TopPath)
    /\ fs' = Put(fs, TopPath, File(OpenedFile.disk))
    /\ stack' = SetTop([Top EXCEPT !.pc = "loop", !.remains = TopEntry.file_size,
                                   !.buf = OpenedFile.buf])
    /\ log' = Append(log, <<"opened", Top.node>>)
    /\ UNCHANGED <<tree, copies, cursor, volsize, exc, validVars, envVars, sigVars>>

\* A failure inside the try block of orphan.py:137-148, in frame f
CopyFails(kind, f) ==
    /\ log' = Append(log, <<"copy_fail", f.node>>)
    /\ IF FileHandlerCatches(kind)
       THEN stack' = SetTop([f EXCEPT !.pc = "set_ts"]) /\ exc' = exc
       ELSE stack' = << >> /\ exc' = Some(kind)

\* orphan.py:141, 147-148: open raises
OpenFail ==
    /\ Running /\ Top.pc = "open"
    /\ \E kind \in IOErrors : CopyFails(kind, Top)
    /\ UNCHANGED <<tree, copies, fs, cursor, volsize, validVars, envVars, sigVars>>

\* The file object of the entry being copied
TopFile == [disk |-> fs[TopPath].data, buf |-> Top.buf, ok |-> TRUE]

\* orphan.py:142-146: one iteration of the copy loop.  readok is whether
\* infile.read returns; when it raises, or when f.write raises because the
\* file cannot grow, the with block closes the file and the handler of
\* orphan.py:147-148 logs the failure.
CopyChunk(readok) ==
    /\ Running /\ Top.pc = "loop"
    /\ Top.remains > 0
    /\ LET read == chunk(Top.remains)
           rem == remains_after(Top.remains, read)
           got == IF readok THEN ReadLen(cursor, read, volsize) ELSE 0
           w == IF readok
                THEN file_write(TopFile, AppendBytes(<< >>, cursor, got),
                                fsize_limit, blksize)
                ELSE [TopFile EXCEPT !.ok = FALSE]
       IN /\ copies' = [copies EXCEPT ![Top.node] =
                 Append(@, [read |-> read, remains |-> rem, at |-> cursor,
                            got |-> got])]
          /\ cursor' = cursor + got
          /\ IF w.ok
             THEN /\ fs' = [fs EXCEPT ![TopPath].data = w.disk]
                  /\ stack' = SetTop([Top EXCEPT !.remains = rem, !.buf = w.buf])
                  /\ log' = log
                  /\ exc' = exc
             ELSE /\ fs' = [fs EXCEPT
                              ![TopPath].data = file_close(w, fsize_limit).disk]
                  /\ \E kind \in IOErrors :
                        CopyFails(kind, [Top EXCEPT !.remains = rem,
                                                    !.buf = << >>])
    /\ UNCHANGED <<tree, volsize, validVars, envVars, sigVars>>

\* orphan.py:141-142: remains > 0 is false, the loop ends and the with block
\* closes the file, which takes everything the buffer holds
LoopExit ==
    /\ Running /\ Top.pc = "loop"
    /\ ~(Top.remains > 0)
    /\ file_close(TopFile, fsize_limit).ok
    /\ fs' = [fs EXCEPT ![TopPath].data = file_close(TopFile, fsize_limit).disk]
    /\ stack' = SetTop([Top EXCEPT !.pc = "set_ts", !.buf = << >>])
    /\ UNCHANGED <<tree, log, copies, cursor, volsize, exc>>
    /\ UNCHANGED <<validVars, envVars, sigVars>>

\* orphan.py:141-148: the loop ends and closing the file raises, the file
\* having no room for all of the buffer; the handler logs the failure
CloseFail ==
    /\ Running /\ Top.pc = "loop"
    /\ ~(Top.remains > 0)
    /\ ~file_close(TopFile, fsize_limit).ok
    /\ fs' = [fs EXCEPT ![TopPath].data = file_close(TopFile, fsize_limit).disk]
    /\ \E kind \in IOErrors : CopyFails(kind, [Top EXCEPT !.buf = << >>])
    /\ UNCHANGED <<tree, copies, cursor, volsize, validVars, envVars, sigVars>>

\* orphan.py:149-150: _set_ts succeeds and recover returns
SetTsOk ==
    /\ Running /\ Top.pc = "set_ts"
    /\ Exists(fs, TopPath)
    /\ fs' = [fs EXCEPT ![TopPath].ts = TRUE]
    /\ log' = log \o << <<"set_ts", Top.node, TopPath>>, <<"ret", Top.node>> >>
    /\ stack' = Pop
    /\ UNCHANGED <<tree, copies, cursor, volsize, exc, validVars, envVars, sigVars>>

\* orphan.py:149-153: _set_ts raises; the handler logs and recover returns
SetTsFail ==
    /\ Running /\ Top.pc = "set_ts"
    /\ \E kind \in TsErrors :
          IF TsHandlerCatches(kind)
          THEN /\ log' = log \o << <<"set_ts", Top.node, TopPath>>, <<"ret", Top.node>> >>
               /\ stack' = Pop
               /\ exc' = exc
          ELSE /\ log' = Append(log, <<"set_ts", Top.node, TopPath>>)
               /\ stack' = << >>
               /\ exc' = Some(kind)
    /\ UNCHANGED <<tree, copies, fs, cursor, volsize, validVars, envVars, sigVars>>

\* The limits on the size of a recovered file: none, and sizes around zero,
\* the buffer of the file object, the chunk size and the sizes of the entries
FsizeLimits ==
    { RLIM_INFINITY, 0, 2, 5000, bufsize - 5000, bufsize - 100, bufsize - 1,
      bufsize, bufsize + 1, bufsize + 2, bufsize + 100, 2 * bufsize - 1,
      2 * bufsize + 1, 2 * bufsize + 3 }

\* st_blksize of the file system recovered into
BlockSizes == {4096, 8192}

InitRecover ==
    /\ IdleValid /\ IdleSig
    /\ \/ \E c \in FileClusters, sz \in FileSizes : tree = LoneFile(c, sz)
       \/ tree = SmallTree
       \/ tree = ClashTree
    /\ fs \in StartFiles(tree[1].file_name)
    /\ cursor \in StartCursors
    /\ volsize = RecVolSize
    /\ stack = << >>
    /\ log = << >>
    /\ exc = None
    /\ copies = [n \in DOMAIN tree |-> << >>]
    /\ fsize_limit \in FsizeLimits
    /\ blksize \in BlockSizes

NextRecover ==
    \/ RecoverCall
    \/ Enter
    \/ MakedirsOk
    \/ MakedirsFail
    \/ NextChild
    \/ ChildrenDone
    \/ OpenOk
    \/ OpenFail
    \/ \E readok \in BOOLEAN : CopyChunk(readok)
    \/ LoopExit
    \/ CloseFail
    \/ SetTsOk
    \/ SetTsFail

SpecRecover == InitRecover /\ [][NextRecover]_vars

(***************************************************************************)
(* Claims about the validator and the registry                             *)
(***************************************************************************)

DatePlausible(dt, thisyear) ==
    /\ dt # None
    /\ Val(dt).year <= thisyear
    /\ DatetimeConstructs(Val(dt).year, Val(dt).month, Val(dt).day,
                          Val(dt).hour, Val(dt).min, Val(dt).sec)

Plausible(c, thisyear) ==
    /\ c.first_cluster <= c.max_clusters
    /\ \A b \in Range(c.file_name_bytes) : b \in VALID_CHARS
    /\ is_valid_attributes(c.attributes)
    /\ DatePlausible(c.creation_time, thisyear)
    /\ DatePlausible(c.last_write_time, thisyear)
    /\ DatePlausible(c.last_access_time, thisyear)

\* C1: is_valid() returns true if and only if first_cluster <= max_clusters,
\* every name byte is in the allowed set, attributes has no bit outside the
\* valid attribute mask, and the three timestamps are present, have a year
\* not after the current year and construct as calendar date/times.
C1_IsValidIffPlausible == vdone => (vresult <=> Plausible(cand, today))

\* C3: the k-th unnamed get_file_name call on a concrete type returns the
\* lowercased type name followed by k, whatever is called on other types,
\* the type's bases and the types derived from it included.
C3_UnnamedNamesCountFromOne ==
    \A t \in SignatureTypes :
        \A k \in 1..Len(named[t]) : named[t][k] = Lower(TypeName(t)) \o Str(k)

\* C8: once the base module is loaded, all_signatures holds every concrete
\* signature type defined so far, each exactly once.
C8_RegistryHoldsEveryType ==
    loaded =>
        \A t \in Defined \ {BaseType} :
            Cardinality({i \in 1..Len(all_signatures) : all_signatures[i] = t}) = 1

\* C4: recover requests at most length bytes from the volume, from the
\* signature's own offset, and never issues an unbounded read; with length 0
\* or 0xffffffff it seeks, reads and writes nothing.
C4_RecoverReadsAtMostLength ==
    sigop.op = "recover" =>
        /\ \A i \in 1..Len(sigop.ios) :
              /\ sigop.ios[i][1] = "read" =>
                    ~WNeg(sigop.ios[i][2]) /\ WLeq(sigop.ios[i][2], sigop.length)
              /\ sigop.ios[i][1] = "seek" =>
                    sigop.ios[i][2] = FileAreaBase + sigop.offset
        /\ sigop.length \in {WFromInt(0), Sentinel} => sigop.ios = << >>

\* C9: seek(k, whence) leaves the cursor k bytes from the signature's base
\* offset within the file area, whatever the cursor was and for every whence.
C9_SeekIsRelativeToBase ==
    sigop.op = "seek" => cursor = FileAreaBase + sigop.offset + sigop.k

(***************************************************************************)
(* Claims about the recovery engine, read off the log of a recovery        *)
(***************************************************************************)

HasEvent(kind, n) == \E i \in 1..Len(log) : log[i][1] = kind /\ log[i][2] = n

EventIndex(kind, n) == CHOOSE i \in 1..Len(log) : log[i][1] = kind /\ log[i][2] = n

Called(n) == HasEvent("call", n)

Returned(n) == HasEvent("ret", n)

MkdirFailed(n) == HasEvent("mkdir_fail", n)

CopyFailed(n) == HasEvent("copy_fail", n)

Opened(n) == HasEvent("opened", n)

TsAttempted(n) == HasEvent("set_ts", n)

\* The destination the entry was recovered into: path + '/' + file_name
Dest(n) == Append(log[EventIndex("call", n)][3], tree[n].file_name)

RecoverDone == stack = << >> /\ log # << >>

IsFileEntry(n) == ~tree[n].is_directory

\* The calls of recover on the children of n, in the order they were made
ChildCalls(n) ==
    SelectSeq(log, LAMBDA e : e[1] = "call" /\ e[2] \in Range(tree[n].children))

ExpectedChildCalls(n) ==
    [i \in 1..Len(tree[n].children) |-> <<"call", tree[n].children[i], Dest(n)>>]

RECURSIVE Descendants(_)
Descendants(n) ==
    Range(tree[n].children)
        \cup UNION {Descendants(c) : c \in Range(tree[n].children)}

\* The bytes of the volume from the entry's cluster on, k of them
SourceBytes(n, k) == AppendBytes(<< >>, seek_to_cluster(tree[n].first_cluster), k)

\* How many bytes the volume holds from the entry's cluster on
Available(n) == Max(0, volsize - seek_to_cluster(tree[n].first_cluster))

RECURSIVE SumReads(_, _)
SumReads(cs, k) == IF k = 0 THEN 0 ELSE cs[k].read + SumReads(cs, k - 1)

CeilDiv(a, b) == (a + b - 1) \div b

CopiedWithoutFailure(n) ==
    /\ IsFileEntry(n) /\ tree[n].file_size >= 0
    /\ Returned(n) /\ ~CopyFailed(n)

\* C2 as stated: a file recovered without a logged I/O failure holds exactly
\* file_size bytes, the volume's bytes from first_cluster's offset on.
C2_FileHoldsExactlyFileSize ==
    \A n \in Nodes :
        CopiedWithoutFailure(n) =>
            /\ fs[Dest(n)].kind = "file"
            /\ fs[Dest(n)].data = SourceBytes(n, tree[n].file_size)
            /\ NumBytes(fs[Dest(n)].data) = tree[n].file_size

\* C2 amended: a file recovered without a logged I/O failure holds the
\* volume's bytes from first_cluster's offset on, file_size of them or as
\* many as the volume has left when that is less, whatever the chunking and
\* the cursor before the call.
C2_FileHoldsAvailablePrefix ==
    \A n \in Nodes :
        CopiedWithoutFailure(n) =>
            /\ fs[Dest(n)].kind = "file"
            /\ fs[Dest(n)].data =
                   SourceBytes(n, Min(tree[n].file_size, Available(n)))
            /\ NumBytes(fs[Dest(n)].data) = Min(tree[n].file_size, Available(n))

C2_Witness ==
    \E n \in Nodes :
        /\ CopiedWithoutFailure(n)
        /\ tree[n].file_size = 2 * bufsize + 5
        /\ Len(copies[n]) = 3
        /\ NumBytes(fs[Dest(n)].data) = 2 * bufsize + 5
        /\ cursor # 0

\* C5 as stated: a directory entry's recover makes path/file_name exist as a
\* directory and calls recover on every child once, in order, each with
\* destination path/file_name.
C5_DirectoryRecoversEveryChild ==
    \A n \in Nodes :
        (tree[n].is_directory /\ Returned(n)) =>
            /\ IsDir(fs, Dest(n))
            /\ ChildCalls(n) = ExpectedChildCalls(n)

\* C5 amended: when path/file_name already exists or is created without an
\* error, recover calls recover on every child once, in children order, each
\* with destination path/file_name, and path/file_name is a directory unless
\* it already existed as a file; when the creation fails no child is called.
C5_DirectoryRecoversChildrenUnlessCreateFails ==
    \A n \in Nodes :
        (tree[n].is_directory /\ Returned(n)) =>
            IF MkdirFailed(n)
            THEN ChildCalls(n) = << >>
            ELSE /\ ChildCalls(n) = ExpectedChildCalls(n)
                 /\ Exists(fs, Dest(n))
                 /\ IsDir(fs, Dest(n))
                        \/ \E i \in 1..Len(log) : log[i] = <<"found", n, "file">>

C5_Witness ==
    /\ RecoverDone
    /\ Len(tree) = 5
    /\ \A n \in Nodes : Returned(n) /\ ~MkdirFailed(n)
    /\ IsDir(fs, <<"out", "d", "e">>)
    /\ Exists(fs, <<"out", "d", "e", "c">>)

\* C6 as stated: every recover that returns has attempted to restore the
\* timestamps of path/file_name first, whether the directory creation or file
\* copy succeeded or failed, and no failure of the attempt is propagated.
C6_TimestampAlwaysAttempted ==
    /\ exc = None
    /\ \A n \in Nodes :
          Returned(n) =>
              /\ TsAttempted(n)
              /\ EventIndex("set_ts", n) < EventIndex("ret", n)

\* C6 amended: every recover that returns has attempted to restore the
\* timestamps of path/file_name first, whether the file copy succeeded or
\* failed and whether the directory existed or was created, except that a
\* directory whose creation failed returns without an attempt; no failure of
\* the attempt is propagated.
C6_TimestampAttemptedUnlessCreateFails ==
    /\ exc = None
    /\ RecoverDone => \A n \in Nodes : Called(n) => Returned(n)
    /\ \A n \in Nodes :
          Returned(n) =>
              IF MkdirFailed(n)
              THEN ~TsAttempted(n)
              ELSE /\ TsAttempted(n)
                   /\ EventIndex("set_ts", n) < EventIndex("ret", n)
                   /\ log[EventIndex("set_ts", n)][3] = Dest(n)

C6_Witness ==
    /\ RecoverDone
    /\ \E n \in Nodes :
          /\ CopyFailed(n) /\ TsAttempted(n)
          /\ Exists(fs, Dest(n)) /\ ~fs[Dest(n)].ts
    /\ \E n \in Nodes :
          /\ IsFileEntry(n) /\ Returned(n) /\ ~CopyFailed(n)
          /\ fs[Dest(n)].ts
    /\ \E n \in Nodes : MkdirFailed(n) /\ Returned(n)

FailedWithIOError(n) == MkdirFailed(n) \/ CopyFailed(n)

\* The entry's recover is about to return, or has just returned
Finishing(n) ==
    \/ stack # << >> /\ Top.node = n /\ Top.pc = "set_ts"
    \/ log # << >> /\ log[Len(log)] = <<"ret", n>>

\* C7: an OS-level I/O error on one entry makes that entry's recover return
\* normally: nothing propagates, no descendant of a directory whose creation
\* failed is attempted, a partially written file is left in place, and every
\* later sibling is still recovered.
C7_IOFailureStopsOnlyThatEntry ==
    /\ exc = None
    /\ RecoverDone => \A n \in Nodes : Called(n) => Returned(n)
    /\ \A n \in Nodes :
          MkdirFailed(n) =>
              Returned(n) /\ \A d \in Descendants(n) : ~Called(d)
    /\ \A n \in Nodes :
          (CopyFailed(n) /\ Opened(n) /\ Finishing(n)) =>
              /\ fs[Dest(n)].kind = "file"
              /\ fs[Dest(n)].data = SourceBytes(n, NumBytes(fs[Dest(n)].data))
              /\ NumBytes(fs[Dest(n)].data) <= Max(0, tree[n].file_size)
    /\ \A p \in Nodes : \A i, j \in 1..Len(tree[p].children) :
          LET a == tree[p].children[i]
              b == tree[p].children[j]
          IN (i < j /\ Returned(p) /\ FailedWithIOError(a)) =>
                 /\ Called(b) /\ Returned(b)
                 /\ EventIndex("ret", a) < EventIndex("call", b)

C7_Witness ==
    /\ RecoverDone
    /\ Len(tree) = 5
    /\ CopyFailed(2) /\ Opened(2) /\ Returned(2)
    /\ NumBytes(fs[Dest(2)].data) = bufsize + 1
    /\ MkdirFailed(3) /\ ~Called(5)
    /\ Opened(4) /\ Returned(4) /\ ~CopyFailed(4)
    /\ NumBytes(fs[Dest(4)].data) = 3

\* C10: the copy loop issues no read when file_size <= 0 and otherwise
\* ceil(file_size / bufsize) reads of 1..bufsize bytes that sum to file_size;
\* the remaining count falls on every iteration and is never negative.
C10_CopyLoopIsBounded ==
    \A n \in Nodes :
        LET cs == copies[n]
            size == tree[n].file_size
        IN /\ size <= 0 => cs = << >>
           /\ \A k \in 1..Len(cs) :
                 /\ cs[k].read >= 1 /\ cs[k].read <= bufsize
                 /\ cs[k].remains >= 0
                 /\ cs[k].remains < (IF k = 1 THEN size ELSE cs[k - 1].remains)
                 /\ cs[k].remains + SumReads(cs, k) = size
           /\ size > 0 => Len(cs) <= CeilDiv(size, bufsize)
           /\ (size > 0 /\ Opened(n) /\ Returned(n) /\ ~CopyFailed(n)) =>
                 /\ Len(cs) = CeilDiv(size, bufsize)
                 /\ SumReads(cs, Len(cs)) = size

C10_Witness ==
    \E n \in Nodes :
        /\ tree[n].file_size = 2 * bufsize + 5
        /\ Returned(n) /\ ~CopyFailed(n)
        /\ [k \in 1..Len(copies[n]) |-> copies[n][k].read] = <<bufsize, bufsize, 5>>

====
